---- MODULE Spec2Model ----
(***************************************************************************)
(* gh-repo-inspect: one invocation of the command (main, runInspect,       *)
(* inspectRepository, outputGovernance) as a state machine.                *)
(*                                                                         *)
(* Text that the program takes apart (the positional argument, the format  *)
(* flag) is a sequence of one-character strings, so that strings.Split and *)
(* strings.ToLower are computed character by character.  A message is a    *)
(* sequence of string pieces: fmt's concatenation is \o.  Section names    *)
(* are only ever compared for equality and stay TLA+ strings.              *)
(***************************************************************************)
EXTENDS Integers, Sequences, FiniteSets, TLC

VARIABLES
    args,           \* positional arguments handed to runInspect by cobra
    outputFormat,   \* --format
    verbose,        \* --verbose
    sections,       \* --sections
    pc,             \* position of the invocation
    owner,          \* runInspect's local owner
    repoName,       \* runInspect's local repoName
    governance,     \* <<>> before construction, <<record>> afterwards
    err,            \* <<>> (nil) or <<message>>: the error travelling to main
    stdout,         \* lines written to standard output
    stderr,         \* messages written to standard error
    exitCode,       \* -1 while running, then the process exit code
    api,            \* hosting-API operations performed, with their outcome
    prev,           \* <<>>, or <<observation>> of the previous invocation
    asked,          \* the section name a filter decision is asked about
    answers         \* <<>>, or the answers of the two filter entry points

vars == <<args, outputFormat, verbose, sections, pc, owner, repoName,
          governance, err, stdout, stderr, exitCode, api, prev,
          asked, answers>>

(***************************************************************************)
(* Bounds                                                                  *)
(***************************************************************************)
\* longest --sections list where the filter is what is varied (the
\* aggregator's calls, the filter on its own)
MaxFilterLen == 2

\* longest --sections list where the command line is what is varied (every
\* positional argument, the repeated invocation)
MaxRunFilterLen == 1

\* longest section filter handed to the renderer on its own
MaxRenderFilterLen == 1

(***************************************************************************)
(* Strings                                                                 *)
(***************************************************************************)
UpperChars ==
    <<"A","B","C","D","E","F","G","H","I","J","K","L","M",
      "N","O","P","Q","R","S","T","U","V","W","X","Y","Z">>

LowerChars ==
    <<"a","b","c","d","e","f","g","h","i","j","k","l","m",
      "n","o","p","q","r","s","t","u","v","w","x","y","z">>

\* unicode.ToLower on one character
ToLowerChar(c) ==
    IF \E i \in DOMAIN UpperChars : UpperChars[i] = c
    THEN LowerChars[CHOOSE i \in DOMAIN UpperChars : UpperChars[i] = c]
    ELSE c

\* strings.ToLower
ToLower(s) == [i \in DOMAIN s |-> ToLowerChar(s[i])]

\* Variant of Split that cuts at the first separator only, as
\* strings.SplitN(s, "/", 2) would.
RECURSIVE SplitFirstFrom(_, _, _)
SplitFirstFrom(s, i, cur) ==
    IF i > Len(s) THEN <<cur>>
    ELSE IF s[i] = "/" THEN <<cur, SubSeq(s, i + 1, Len(s))>>
    ELSE SplitFirstFrom(s, i + 1, Append(cur, s[i]))

SplitFirstOnly(s) == SplitFirstFrom(s, 1, <<>>)

\* strings.Split(s, "/"): scan left to right, cutting at every separator
RECURSIVE SplitFrom(_, _, _)
SplitFrom(s, i, cur) ==
    IF i > Len(s) THEN <<cur>>
    ELSE IF s[i] = "/" THEN <<cur>> \o SplitFrom(s, i + 1, <<>>)
    ELSE SplitFrom(s, i + 1, Append(cur, s[i]))

Split(s) == SplitFrom(s, 1, <<>>)

\* strings.Contains on piece sequences
Contains(s, sub) ==
    \E i \in 0..(Len(s) - Len(sub)) :
        \A j \in 1..Len(sub) : s[i + j] = sub[j]

RECURSIVE SeqsUpTo(_, _)
SeqsUpTo(S, n) ==
    IF n = 0 THEN {<<>>}
    ELSE LET shorter == SeqsUpTo(S, n - 1)
         IN  shorter \cup {Append(q, x) : q \in shorter, x \in S}

RECURSIVE Flatten(_)
Flatten(ss) == IF ss = <<>> THEN <<>> ELSE Head(ss) \o Flatten(Tail(ss))

Range(s) == {s[i] : i \in DOMAIN s}

(***************************************************************************)
(* Section filter                                                          *)
(***************************************************************************)
\* the seven facets, in the order inspectRepository visits them
Collectors ==
    <<"settings", "rulesets", "collaborators", "teams",
      "security", "labels", "milestones">>

SectionNames == Range(Collectors)

\* utils.ShouldIncludeSection(filter, section)
ShouldIncludeSection(filter, section) ==
    IF Len(filter) = 0 THEN TRUE
    ELSE \E i \in DOMAIN filter : filter[i] = section

\* Variant of shouldIncludeSection that lower-cases the names of the flag
\* before it matches them.
FoldName(name) == IF name = "Teams" THEN "teams" ELSE name

shouldIncludeSectionFolded(section) ==
    ShouldIncludeSection([i \in DOMAIN sections |-> FoldName(sections[i])],
                         section)

\* main.shouldIncludeSection reads the global flag
shouldIncludeSection(section) == ShouldIncludeSection(sections, section)

\* output.shouldIncludeSectionOutput takes the filter it is handed
shouldIncludeSectionOutput(section, sectionsFilter) ==
    ShouldIncludeSection(sectionsFilter, section)

(***************************************************************************)
(* Governance record (GovernanceConfig and its parts).  A record's fields  *)
(* carry the Go field names.                                               *)
(***************************************************************************)
\* Go zero value of RepositorySettings
ZeroRepoSettings ==
    [Private |-> FALSE, Archived |-> FALSE, Disabled |-> FALSE,
     DefaultBranch |-> "", AllowMergeCommit |-> FALSE,
     AllowSquashMerge |-> FALSE, AllowRebaseMerge |-> FALSE,
     AllowAutoMerge |-> FALSE, DeleteBranchOnMerge |-> FALSE,
     HasIssues |-> FALSE, HasProjects |-> FALSE, HasWiki |-> FALSE,
     HasDownloads |-> FALSE]

\* Go zero value of SecuritySettings
ZeroSecuritySettings ==
    [VulnerabilityAlerts |-> FALSE, AutomatedSecurityFixes |-> FALSE,
     SecretScanning |-> FALSE, SecretScanningPushProtection |-> FALSE,
     DependencyGraphEnabled |-> FALSE]

\* &GovernanceConfig{Repository: RepoInfo{Owner: owner, Name: repo}}
NewGovernance(o, r) ==
    [Repository       |-> [Owner |-> o, Name |-> r],
     Rulesets         |-> <<>>,
     RequiredChecks   |-> <<>>,
     Collaborators    |-> <<>>,
     Teams            |-> <<>>,
     SecuritySettings |-> ZeroSecuritySettings,
     RepoSettings     |-> ZeroRepoSettings,
     IssueLabels      |-> <<>>,
     Milestones       |-> <<>>]

\* the example repository settings of the reference data
SampleRepoSettings ==
    [ZeroRepoSettings EXCEPT
        !.DefaultBranch = "main", !.AllowMergeCommit = TRUE,
        !.AllowSquashMerge = TRUE, !.AllowRebaseMerge = TRUE,
        !.DeleteBranchOnMerge = TRUE, !.HasIssues = TRUE]

\* the example security settings of the reference data
SampleSecuritySettings ==
    [VulnerabilityAlerts |-> TRUE, AutomatedSecurityFixes |-> TRUE,
     SecretScanning |-> TRUE, SecretScanningPushProtection |-> TRUE,
     DependencyGraphEnabled |-> TRUE]

\* the example collaborators of the reference data
SampleCollaborators ==
    <<[Login |-> "maintainer1", Permission |-> "admin", Type |-> "User"],
      [Login |-> "developer1", Permission |-> "write", Type |-> "User"]>>

\* the example teams of the reference data
SampleTeams ==
    <<[Name |-> "Core Team", Slug |-> "core-team", Permission |-> "admin"],
      [Name |-> "Contributors", Slug |-> "contributors", Permission |-> "write"],
      [Name |-> "Reviewers", Slug |-> "reviewers", Permission |-> "triage"]>>

\* a ruleset that requires pull-request reviews and two status checks
RulesetMain ==
    [Name |-> "main-protection", Pattern |-> "main", EnforceAdmins |-> TRUE,
     RequiredStatusChecks |-> <<"ci/build", "ci/test">>,
     RequiredPullRequestReviews |-> TRUE,
     RequiredApprovingReviewCount |-> 2,
     DismissStaleReviews |-> TRUE, RequireCodeOwnerReviews |-> FALSE,
     RequiredLinearHistory |-> TRUE, AllowForcePushes |-> FALSE,
     AllowDeletions |-> FALSE, RequiredConversationResolution |-> TRUE]

\* a ruleset without the review requirement whose nested fields are set
\* all the same, and without status checks
RulesetRelease ==
    [Name |-> "release", Pattern |-> "release/*", EnforceAdmins |-> FALSE,
     RequiredStatusChecks |-> <<>>,
     RequiredPullRequestReviews |-> FALSE,
     RequiredApprovingReviewCount |-> 1,
     DismissStaleReviews |-> TRUE, RequireCodeOwnerReviews |-> TRUE,
     RequiredLinearHistory |-> FALSE, AllowForcePushes |-> TRUE,
     AllowDeletions |-> FALSE, RequiredConversationResolution |-> FALSE]

SampleRulesets == <<RulesetMain, RulesetRelease>>

SampleLabels ==
    <<[Name |-> "bug", Color |-> "d73a4a",
       Description |-> "Something is not working"],
      [Name |-> "chore", Color |-> "ededed", Description |-> ""]>>

SampleMilestones ==
    <<[Title |-> "v1.0", Description |-> "First release",
       State |-> "open", DueOn |-> "2025-01-31"],
      [Title |-> "v0.9", Description |-> "",
       State |-> "closed", DueOn |-> ""]>>

\* the record field each collector fills
FacetField(c) ==
    CASE c = "settings"      -> "RepoSettings"
      [] c = "rulesets"      -> "Rulesets"
      [] c = "collaborators" -> "Collaborators"
      [] c = "teams"         -> "Teams"
      [] c = "security"      -> "SecuritySettings"
      [] c = "labels"        -> "IssueLabels"
      [] c = "milestones"    -> "Milestones"

\* what the hosting API can answer to a facet's query, decoded
Responses(c) ==
    CASE c = "settings"      -> <<SampleRepoSettings>>
      [] c = "rulesets"      -> <<SampleRulesets>>
      [] c = "collaborators" -> <<SampleCollaborators>>
      [] c = "teams"         -> <<SampleTeams>>
      [] c = "security"      -> <<SampleSecuritySettings>>
      [] c = "labels"        -> <<SampleLabels>>
      [] c = "milestones"    -> <<SampleMilestones>>

(***************************************************************************)
(* Serialisation.  A document is a sequence of lines; a line is the path   *)
(* of keys and indices down to a scalar, followed by the scalar's text.    *)
(***************************************************************************)
Field(go, json, omitempty, yaml, kind) ==
    [go |-> go, json |-> json, omitempty |-> omitempty, yaml |-> yaml,
     kind |-> kind]

\* The struct tags.  A field has a json tag only; yaml.v3 reads the yaml
\* tag alone, so its key is the lower-cased Go field name and it knows of
\* no omitempty.
GovernanceConfigFields ==
    <<Field("Repository", "repository", FALSE, "repository", "RepoInfo"),
      Field("Rulesets", "rulesets", TRUE, "rulesets", "[]Ruleset"),
      Field("RequiredChecks", "required_checks", TRUE, "requiredchecks",
            "[]string"),
      Field("Collaborators", "collaborators", TRUE, "collaborators",
            "[]Collaborator"),
      Field("Teams", "teams", TRUE, "teams", "[]Team"),
      Field("SecuritySettings", "security_settings", FALSE,
            "securitysettings", "SecuritySettings"),
      Field("RepoSettings", "repository_settings", FALSE, "reposettings",
            "RepositorySettings"),
      Field("IssueLabels", "issue_labels", TRUE, "issuelabels", "[]Label"),
      Field("Milestones", "milestones", TRUE, "milestones", "[]Milestone")>>

RepoInfoFields ==
    <<Field("Owner", "owner", FALSE, "owner", "chars"),
      Field("Name", "name", FALSE, "name", "chars")>>

RulesetFields ==
    <<Field("Name", "name", FALSE, "name", "string"),
      Field("Pattern", "pattern", FALSE, "pattern", "string"),
      Field("EnforceAdmins", "enforce_admins", FALSE, "enforceadmins", "bool"),
      Field("RequiredStatusChecks", "required_status_checks", TRUE,
            "requiredstatuschecks", "[]string"),
      Field("RequiredPullRequestReviews", "required_pull_request_reviews",
            FALSE, "requiredpullrequestreviews", "bool"),
      Field("RequiredApprovingReviewCount", "required_approving_review_count",
            FALSE, "requiredapprovingreviewcount", "int"),
      Field("DismissStaleReviews", "dismiss_stale_reviews", FALSE,
            "dismissstalereviews", "bool"),
      Field("RequireCodeOwnerReviews", "require_code_owner_reviews", FALSE,
            "requirecodeownerreviews", "bool"),
      Field("RequiredLinearHistory", "required_linear_history", FALSE,
            "requiredlinearhistory", "bool"),
      Field("AllowForcePushes", "allow_force_pushes", FALSE,
            "allowforcepushes", "bool"),
      Field("AllowDeletions", "allow_deletions", FALSE, "allowdeletions",
            "bool"),
      Field("RequiredConversationResolution",
            "required_conversation_resolution", FALSE,
            "requiredconversationresolution", "bool")>>

CollaboratorFields ==
    <<Field("Login", "login", FALSE, "login", "string"),
      Field("Permission", "permission", FALSE, "permission", "string"),
      Field("Type", "type", FALSE, "type", "string")>>

TeamFields ==
    <<Field("Name", "name", FALSE, "name", "string"),
      Field("Slug", "slug", FALSE, "slug", "string"),
      Field("Permission", "permission", FALSE, "permission", "string")>>

SecuritySettingsFields ==
    <<Field("VulnerabilityAlerts", "vulnerability_alerts", FALSE,
            "vulnerabilityalerts", "bool"),
      Field("AutomatedSecurityFixes", "automated_security_fixes", FALSE,
            "automatedsecurityfixes", "bool"),
      Field("SecretScanning", "secret_scanning", FALSE, "secretscanning",
            "bool"),
      Field("SecretScanningPushProtection", "secret_scanning_push_protection",
            FALSE, "secretscanningpushprotection", "bool"),
      Field("DependencyGraphEnabled", "dependency_graph_enabled", FALSE,
            "dependencygraphenabled", "bool")>>

RepositorySettingsFields ==
    <<Field("Private", "private", FALSE, "private", "bool"),
      Field("Archived", "archived", FALSE, "archived", "bool"),
      Field("Disabled", "disabled", FALSE, "disabled", "bool"),
      Field("DefaultBranch", "default_branch", FALSE, "defaultbranch",
            "string"),
      Field("AllowMergeCommit", "allow_merge_commit", FALSE,
            "allowmergecommit", "bool"),
      Field("AllowSquashMerge", "allow_squash_merge", FALSE,
            "allowsquashmerge", "bool"),
      Field("AllowRebaseMerge", "allow_rebase_merge", FALSE,
            "allowrebasemerge", "bool"),
      Field("AllowAutoMerge", "allow_auto_merge", FALSE, "allowautomerge",
            "bool"),
      Field("DeleteBranchOnMerge", "delete_branch_on_merge", FALSE,
            "deletebranchonmerge", "bool"),
      Field("HasIssues", "has_issues", FALSE, "hasissues", "bool"),
      Field("HasProjects", "has_projects", FALSE, "hasprojects", "bool"),
      Field("HasWiki", "has_wiki", FALSE, "haswiki", "bool"),
      Field("HasDownloads", "has_downloads", FALSE, "hasdownloads", "bool")>>

LabelFields ==
    <<Field("Name", "name", FALSE, "name", "string"),
      Field("Color", "color", FALSE, "color", "string"),
      Field("Description", "description", TRUE, "description", "string")>>

MilestoneFields ==
    <<Field("Title", "title", FALSE, "title", "string"),
      Field("Description", "description", TRUE, "description", "string"),
      Field("State", "state", FALSE, "state", "string"),
      Field("DueOn", "due_on", TRUE, "dueon", "string")>>

StructFields(kind) ==
    CASE kind = "GovernanceConfig"   -> GovernanceConfigFields
      [] kind = "RepoInfo"           -> RepoInfoFields
      [] kind = "Ruleset"            -> RulesetFields
      [] kind = "Collaborator"       -> CollaboratorFields
      [] kind = "Team"               -> TeamFields
      [] kind = "SecuritySettings"   -> SecuritySettingsFields
      [] kind = "RepositorySettings" -> RepositorySettingsFields
      [] kind = "Label"              -> LabelFields
      [] kind = "Milestone"          -> MilestoneFields

\* element kind of a slice kind, "" for any other kind
ElemKind(kind) ==
    CASE kind = "[]string"       -> "string"
      [] kind = "[]Ruleset"      -> "Ruleset"
      [] kind = "[]Collaborator" -> "Collaborator"
      [] kind = "[]Team"         -> "Team"
      [] kind = "[]Label"        -> "Label"
      [] kind = "[]Milestone"    -> "Milestone"
      [] OTHER                   -> ""

\* encoding/json's isEmptyValue, for the kinds that carry omitempty here
IsEmptyValue(kind, v) ==
    IF ElemKind(kind) # "" THEN Len(v) = 0
    ELSE IF kind = "string" THEN v = ""
    ELSE FALSE

Prefix(key, doc) == [i \in DOMAIN doc |-> <<key>> \o doc[i]]

\* whether encoder enc leaves field f out of a struct holding value v
OmitsField(enc, f, v) ==
    enc = "json" /\ f.omitempty /\ IsEmptyValue(f.kind, v)

\* the key encoder enc writes for field f
FieldKey(enc, f) == IF enc = "json" THEN f.json ELSE f.yaml

\* the document of value v of the given kind, under encoder enc
RECURSIVE Encode(_, _, _)
Encode(enc, kind, v) ==
    CASE kind = "chars"  -> <<v>>
      [] kind = "string" -> <<<<v>>>>
      [] kind = "bool"   -> <<<<IF v THEN "true" ELSE "false">>>>
      [] kind = "int"    -> <<<<ToString(v)>>>>
      [] ElemKind(kind) # "" ->
            IF Len(v) = 0 THEN <<<<"[]">>>>
            ELSE Flatten([i \in DOMAIN v |->
                     Prefix(ToString(i - 1), Encode(enc, ElemKind(kind), v[i]))])
      [] OTHER ->
            LET fs == StructFields(kind)
            IN  Flatten([k \in DOMAIN fs |->
                    IF OmitsField(enc, fs[k], v[fs[k].go]) THEN <<>>
                    ELSE Prefix(FieldKey(enc, fs[k]),
                                Encode(enc, fs[k].kind, v[fs[k].go]))])

\* json.NewEncoder(os.Stdout).Encode(governance)
outputJSON(g) == Encode("json", "GovernanceConfig", g)

\* yaml.NewEncoder(os.Stdout).Encode(governance)
outputYAML(g) == Encode("yaml", "GovernanceConfig", g)

(***************************************************************************)
(* Table rendering.  Each fmt.Printf / fmt.Println call is one line: its   *)
(* connector or title first, then its label and values.  The box-drawing   *)
(* connectors and the icons are written in ASCII.                          *)
(***************************************************************************)
Tee == "|-"
Corner == "+-"

\* utils.BoolToIcon
boolToIcon(b) == IF b THEN "[yes]" ELSE "[no]"

\* utils.PermissionToIcon
permissionToIcon(permission) ==
    CASE permission = "admin"  -> "[admin]"
      [] permission = "write"  -> "[write]"
      [] permission = "triage" -> "[triage]"
      [] permission = "read"   -> "[read]"
      [] OTHER                 -> "[?]"

\* prefix of the i-th of n siblings (i counted from 1)
ListPrefix(i, n) == IF i = n THEN Corner ELSE Tee

HeaderLines(g) ==
    <<<<"Repository Governance Report">>,
      <<"===========================">>,
      <<"Repository: ">> \o g.Repository.Owner \o <<"/">> \o g.Repository.Name>>

SettingsLines(rs) ==
    <<<<"Repository Settings">>,
      <<Tee, "Private: ", boolToIcon(rs.Private)>>,
      <<Tee, "Archived: ", boolToIcon(rs.Archived)>>,
      <<Tee, "Default Branch: ", rs.DefaultBranch>>,
      <<Tee, "Issues: ", boolToIcon(rs.HasIssues)>>,
      <<Tee, "Projects: ", boolToIcon(rs.HasProjects)>>,
      <<Tee, "Wiki: ", boolToIcon(rs.HasWiki)>>,
      <<Tee, "Allow Merge Commit: ", boolToIcon(rs.AllowMergeCommit)>>,
      <<Tee, "Allow Squash Merge: ", boolToIcon(rs.AllowSquashMerge)>>,
      <<Tee, "Allow Rebase Merge: ", boolToIcon(rs.AllowRebaseMerge)>>,
      <<Corner, "Delete Branch on Merge: ",
        boolToIcon(rs.DeleteBranchOnMerge)>>>>

SecurityLines(ss) ==
    <<<<"Security Settings">>,
      <<Tee, "Vulnerability Alerts: ", boolToIcon(ss.VulnerabilityAlerts)>>,
      <<Tee, "Automated Security Fixes: ",
        boolToIcon(ss.AutomatedSecurityFixes)>>,
      <<Tee, "Secret Scanning: ", boolToIcon(ss.SecretScanning)>>,
      <<Tee, "Secret Scanning Push Protection: ",
        boolToIcon(ss.SecretScanningPushProtection)>>,
      <<Corner, "Dependency Graph: ",
        boolToIcon(ss.DependencyGraphEnabled)>>>>

\* Variant of ReviewLines without the test of the requirement flag.
ReviewLinesAlways(ruleset) ==
    <<<<"   |  " \o Tee, "Required Approving Reviews: ",
        ToString(ruleset.RequiredApprovingReviewCount)>>,
      <<"   |  " \o Tee, "Dismiss Stale Reviews: ",
        boolToIcon(ruleset.DismissStaleReviews)>>,
      <<"   |  " \o Corner, "Require Code Owner Reviews: ",
        boolToIcon(ruleset.RequireCodeOwnerReviews)>>>>

\* the nested lines under "Require PR Reviews"
ReviewLines(ruleset) ==
    IF ruleset.RequiredPullRequestReviews
    THEN <<<<"   |  " \o Tee, "Required Approving Reviews: ",
             ToString(ruleset.RequiredApprovingReviewCount)>>,
           <<"   |  " \o Tee, "Dismiss Stale Reviews: ",
             boolToIcon(ruleset.DismissStaleReviews)>>,
           <<"   |  " \o Corner, "Require Code Owner Reviews: ",
             boolToIcon(ruleset.RequireCodeOwnerReviews)>>>>
    ELSE <<>>

StatusCheckLines(checks) ==
    IF Len(checks) > 0
    THEN <<<<"   " \o Corner, "Required Status Checks:">>>>
         \o [j \in DOMAIN checks |->
                <<"      " \o ListPrefix(j, Len(checks)), checks[j]>>]
    ELSE <<<<"   " \o Corner, "Required Status Checks: None">>>>

\* the body of the loop over governance.Rulesets for the i-th of n rulesets
RulesetLines(ruleset, i, n) ==
    <<<<ListPrefix(i, n), ruleset.Name, " (Pattern: ", ruleset.Pattern, ")">>,
      <<"   " \o Tee, "Enforce Admins: ", boolToIcon(ruleset.EnforceAdmins)>>,
      <<"   " \o Tee, "Require PR Reviews: ",
        boolToIcon(ruleset.RequiredPullRequestReviews)>>>>
    \o ReviewLines(ruleset)
    \o <<<<"   " \o Tee, "Required Linear History: ",
           boolToIcon(ruleset.RequiredLinearHistory)>>,
         <<"   " \o Tee, "Allow Force Pushes: ",
           boolToIcon(ruleset.AllowForcePushes)>>,
         <<"   " \o Tee, "Allow Deletions: ",
           boolToIcon(ruleset.AllowDeletions)>>,
         <<"   " \o Tee, "Require Conversation Resolution: ",
           boolToIcon(ruleset.RequiredConversationResolution)>>>>
    \o StatusCheckLines(ruleset.RequiredStatusChecks)
    \o (IF i < n THEN <<<<"   ">>>> ELSE <<>>)

RulesetsLines(rulesets) ==
    <<<<"Repository Rulesets">>>>
    \o Flatten([i \in DOMAIN rulesets |->
                   RulesetLines(rulesets[i], i, Len(rulesets))])
    \o <<<<"">>>>

CollaboratorsLines(collaborators) ==
    <<<<"Collaborators (", ToString(Len(collaborators)), ")">>>>
    \o [i \in DOMAIN collaborators |->
           <<ListPrefix(i, Len(collaborators)), collaborators[i].Login,
             " (", collaborators[i].Type, ") - ",
             permissionToIcon(collaborators[i].Permission)>>]
    \o <<<<"">>>>

TeamsLines(teams) ==
    <<<<"Teams (", ToString(Len(teams)), ")">>>>
    \o [i \in DOMAIN teams |->
           <<ListPrefix(i, Len(teams)), teams[i].Name,
             " (@", teams[i].Slug, ") - ",
             permissionToIcon(teams[i].Permission)>>]
    \o <<<<"">>>>

LabelsLines(labels) ==
    <<<<"Labels (", ToString(Len(labels)), ")">>>>
    \o [i \in DOMAIN labels |->
           <<ListPrefix(i, Len(labels)), labels[i].Name, " #",
             labels[i].Color>>
           \o (IF labels[i].Description # ""
               THEN <<" (", labels[i].Description, ")">> ELSE <<>>)]
    \o <<<<"">>>>

MilestoneLines(m, i, n) ==
    <<<<ListPrefix(i, n),
        IF m.State = "closed" THEN "[closed]" ELSE "[open]", m.Title>>
      \o (IF m.DueOn # "" THEN <<" (Due: ", m.DueOn, ")">> ELSE <<>>)>>
    \o (IF m.Description # "" THEN <<<<"   ", m.Description>>>> ELSE <<>>)

MilestonesLines(milestones) ==
    <<<<"Milestones (", ToString(Len(milestones)), ")">>>>
    \o Flatten([i \in DOMAIN milestones |->
                   MilestoneLines(milestones[i], i, Len(milestones))])
    \o <<<<"">>>>

\* Variant of outputTable whose collaborators section does not consult the
\* filter.
outputTableCollaboratorsUnfiltered(g, sectionsFilter) ==
    HeaderLines(g)
    \o (IF shouldIncludeSectionOutput("settings", sectionsFilter)
        THEN SettingsLines(g.RepoSettings) ELSE <<>>)
    \o (IF shouldIncludeSectionOutput("security", sectionsFilter)
        THEN SecurityLines(g.SecuritySettings) ELSE <<>>)
    \o (IF Len(g.Rulesets) > 0
           /\ shouldIncludeSectionOutput("rulesets", sectionsFilter)
        THEN RulesetsLines(g.Rulesets) ELSE <<>>)
    \o (IF Len(g.Collaborators) > 0
        THEN CollaboratorsLines(g.Collaborators) ELSE <<>>)
    \o (IF Len(g.Teams) > 0
           /\ shouldIncludeSectionOutput("teams", sectionsFilter)
        THEN TeamsLines(g.Teams) ELSE <<>>)
    \o (IF Len(g.IssueLabels) > 0
           /\ shouldIncludeSectionOutput("labels", sectionsFilter)
        THEN LabelsLines(g.IssueLabels) ELSE <<>>)
    \o (IF Len(g.Milestones) > 0
           /\ shouldIncludeSectionOutput("milestones", sectionsFilter)
        THEN MilestonesLines(g.Milestones) ELSE <<>>)

\* outputTable: what it writes for record g under filter sectionsFilter
outputTable(g, sectionsFilter) ==
    HeaderLines(g)
    \o (IF shouldIncludeSectionOutput("settings", sectionsFilter)
        THEN SettingsLines(g.RepoSettings) ELSE <<>>)
    \o (IF shouldIncludeSectionOutput("security", sectionsFilter)
        THEN SecurityLines(g.SecuritySettings) ELSE <<>>)
    \o (IF Len(g.Rulesets) > 0
           /\ shouldIncludeSectionOutput("rulesets", sectionsFilter)
        THEN RulesetsLines(g.Rulesets) ELSE <<>>)
    \o (IF Len(g.Collaborators) > 0
           /\ shouldIncludeSectionOutput("collaborators", sectionsFilter)
        THEN CollaboratorsLines(g.Collaborators) ELSE <<>>)
    \o (IF Len(g.Teams) > 0
           /\ shouldIncludeSectionOutput("teams", sectionsFilter)
        THEN TeamsLines(g.Teams) ELSE <<>>)
    \o (IF Len(g.IssueLabels) > 0
           /\ shouldIncludeSectionOutput("labels", sectionsFilter)
        THEN LabelsLines(g.IssueLabels) ELSE <<>>)
    \o (IF Len(g.Milestones) > 0
           /\ shouldIncludeSectionOutput("milestones", sectionsFilter)
        THEN MilestonesLines(g.Milestones) ELSE <<>>)

(***************************************************************************)
(* Inputs                                                                  *)
(***************************************************************************)
\* values of the positional argument
ArgStrings ==
    {<<>>, <<"a">>, <<"/">>, <<"a", "/">>, <<"/", "b">>, <<"a", "/", "b">>,
     <<"/", "/">>, <<"a", "/", "b", "/", "c">>}

\* values of --format
Formats ==
    {<<"j","s","o","n">>, <<"J","S","O","N">>, <<"y","a","m","l">>,
     <<"Y","m","l">>, <<"t","a","b","l","e">>, <<"X","M","L">>}

\* names a user may put in --sections: the seven sections and a name that
\* differs from one of them by case only
FilterNames == SectionNames \cup {"Teams"}

Filters == SeqsUpTo(FilterNames, MaxFilterLen)

\* full names the user/repos query may deliver
FullNames == <<<<"a", "/", "b">>, <<"a", "b">>>>

(***************************************************************************)
(* Hosting API.  An operation's outcome is a number: 0 is an error, i > 0  *)
(* the i-th answer the operation can give.  The outcome is decided when    *)
(* the operation is performed; a repeated invocation meets the outcomes    *)
(* of the one before it.                                                   *)
(***************************************************************************)
ApiResults(op) ==
    CASE op = "DefaultRESTClient" -> 0..1
      [] op = "user/repos"        -> 0..Len(FullNames)
      [] OTHER                    -> 0..Len(Responses(op))

Replays(op, res) ==
    IF prev = <<>> THEN TRUE
    ELSE IF Len(api) >= Len(prev[1].api) THEN TRUE
    ELSE IF prev[1].api[Len(api) + 1].op # op THEN TRUE
    ELSE prev[1].api[Len(api) + 1].res = res

Performed(op, res, by) ==
    Append(api, [op |-> op, res |-> res, by |-> by])

ApiError == <<"request failed">>

\* the collectors invoked so far, in order
Invoked ==
    LET ops == [i \in DOMAIN api |-> api[i].op]
    IN  SelectSeq(ops, LAMBDA o : o \in SectionNames)

(***************************************************************************)
(* The invocation                                                          *)
(***************************************************************************)
TypeOK ==
    /\ args \in {<<>>} \cup {<<a>> : a \in ArgStrings}
    /\ outputFormat \in Formats
    /\ verbose \in BOOLEAN
    /\ sections \in Filters
    /\ exitCode \in {-1, 0, 1}
    /\ Len(governance) <= 1
    /\ Len(err) <= 1

\* runInspect is entered with the flags bound by cobra
Start(commandLines, filters) ==
    /\ args \in commandLines
    /\ outputFormat \in Formats
    /\ verbose \in BOOLEAN
    /\ sections \in filters
    /\ pc = "runInspect"
    /\ owner = <<>>
    /\ repoName = <<>>
    /\ governance = <<>>
    /\ err = <<>>
    /\ stdout = <<>>
    /\ stderr = <<>>
    /\ exitCode = -1
    /\ api = <<>>
    /\ prev = <<>>
    /\ asked = ""
    /\ answers = <<>>

\* every command line: no argument or any of the argument strings
Init ==
    Start({<<>>} \cup {<<a>> : a \in ArgStrings},
          SeqsUpTo(FilterNames, MaxRunFilterLen))

\* a run that fails: the error travels up to main
Fails(message) ==
    /\ err' = <<message>>
    /\ pc' = "returned"

\* stderr after a diagnostic that is written in verbose mode only
Diagnostic(message) ==
    IF verbose THEN Append(stderr, message) ELSE stderr

\* runInspect from strings.Split to the call of inspectRepository
SplitRepo(repo) ==
    LET parts == Split(repo)
    IN  IF Len(parts) # 2
        THEN /\ Fails(<<"repository must be in format 'owner/repo'">>)
             /\ UNCHANGED <<owner, repoName, stderr>>
        ELSE /\ owner' = parts[1]
             /\ repoName' = parts[2]
             /\ stderr' = Diagnostic(<<"Inspecting repository: ">> \o parts[1]
                                     \o <<"/">> \o parts[2] \o <<"\n">>)
             /\ pc' = "inspectRepository"
             /\ UNCHANGED err

\* runInspect with a positional argument
RunInspectArg ==
    /\ pc = "runInspect"
    /\ Len(args) # 0
    /\ SplitRepo(args[1])
    /\ UNCHANGED <<args, outputFormat, verbose, sections, governance, stdout,
                   exitCode, api, prev, asked, answers>>

ResolutionError ==
    <<"no repository specified and could not determine current repository: ">>
    \o ApiError

\* runInspect without an argument: getCurrentRepo builds its client
GetCurrentRepoClient ==
    /\ pc = "runInspect"
    /\ Len(args) = 0
    /\ \E res \in ApiResults("DefaultRESTClient") :
        /\ Replays("DefaultRESTClient", res)
        /\ api' = Performed("DefaultRESTClient", res, "getCurrentRepo")
        /\ IF res = 0
           THEN Fails(ResolutionError)
           ELSE pc' = "getCurrentRepo" /\ UNCHANGED err
    /\ UNCHANGED <<args, outputFormat, verbose, sections, owner, repoName,
                   governance, stdout, stderr, exitCode, prev, asked,
                   answers>>

\* getCurrentRepo queries user/repos; runInspect goes on with its full name
GetCurrentRepoGet ==
    /\ pc = "getCurrentRepo"
    /\ \E res \in ApiResults("user/repos") :
        /\ Replays("user/repos", res)
        /\ api' = Performed("user/repos", res, "getCurrentRepo")
        /\ IF res = 0
           THEN Fails(ResolutionError) /\ UNCHANGED <<owner, repoName, stderr>>
           ELSE SplitRepo(FullNames[res])
    /\ UNCHANGED <<args, outputFormat, verbose, sections, governance, stdout,
                   exitCode, prev, asked, answers>>

\* inspectRepository: the client and the record's construction
InspectRepository ==
    /\ pc = "inspectRepository"
    /\ \E res \in ApiResults("DefaultRESTClient") :
        /\ Replays("DefaultRESTClient", res)
        /\ api' = Performed("DefaultRESTClient", res, "inspectRepository")
        /\ IF res = 0
           THEN /\ Fails(<<"failed to inspect repository: ">> \o ApiError)
                /\ UNCHANGED governance
           ELSE /\ governance' = <<NewGovernance(owner, repoName)>>
                /\ pc' = "settings"
                /\ UNCHANGED err
    /\ UNCHANGED <<args, outputFormat, verbose, sections, owner, repoName,
                   stdout, stderr, exitCode, prev, asked, answers>>

\* a collector: on success it overwrites its field of the record, on an
\* error it leaves the record as it was
Fetch(c, record, res) ==
    IF res = 0 THEN record
    ELSE [record EXCEPT ![FacetField(c)] = Responses(c)[res]]

\* Variant of Selected that puts the settings collector under the filter
\* like the other six.
SelectedFiltered(c) == shouldIncludeSection(c)

\* whether inspectRepository calls collector c
Selected(c) == c = "settings" \/ shouldIncludeSection(c)

\* Variant of Collect that returns a collector's error to runInspect
\* instead of going on.
CollectAbortOnError(c, next) ==
    /\ pc = c
    /\ IF c = "settings" \/ shouldIncludeSection(c)
       THEN \E res \in ApiResults(c) :
               /\ Replays(c, res)
               /\ api' = Performed(c, res, "inspectRepository")
               /\ governance' = <<Fetch(c, governance[1], res)>>
               /\ IF res = 0
                  THEN Fails(<<"failed to inspect repository: ">> \o ApiError)
                  ELSE pc' = next /\ UNCHANGED err
               /\ UNCHANGED stderr
       ELSE pc' = next /\ UNCHANGED <<api, governance, stderr, err>>
    /\ UNCHANGED <<args, outputFormat, verbose, sections, owner, repoName,
                   stdout, exitCode, prev, asked, answers>>

\* what a collector's warning calls its facet
WarningName(c) ==
    CASE c = "settings" -> "repository settings"
      [] c = "security" -> "security settings"
      [] OTHER          -> c

\* one block of inspectRepository: the filter's decision, the collector's
\* call and the warning for its error
Collect(c, next) ==
    /\ pc = c
    /\ pc' = next
    /\ IF Selected(c)
       THEN \E res \in ApiResults(c) :
               /\ Replays(c, res)
               /\ api' = Performed(c, res, "inspectRepository")
               /\ governance' = <<Fetch(c, governance[1], res)>>
               /\ stderr' = IF res = 0
                            THEN Diagnostic(<<"Warning: failed to get ",
                                              WarningName(c), ": ">>
                                            \o ApiError \o <<"\n">>)
                            ELSE stderr
       ELSE UNCHANGED <<api, governance, stderr>>
    /\ UNCHANGED <<args, outputFormat, verbose, sections, owner, repoName,
                   err, stdout, exitCode, prev, asked, answers>>

getRepositorySettings == Collect("settings", "rulesets")

getRulesets == Collect("rulesets", "collaborators")

getCollaborators == Collect("collaborators", "teams")

getTeams == Collect("teams", "security")

getSecuritySettings == Collect("security", "labels")

getLabels == Collect("labels", "milestones")

getMilestones == Collect("milestones", "inspected")

\* the note at the end of inspectRepository
MockDataNote ==
    <<"Note: Using mock data for demonstration. ",
      "In production, this would fetch real data from GitHub API.\n">>

\* Variant of InspectReturn that prints the note to standard output.
InspectReturnNoteToStdout ==
    /\ pc = "inspected"
    /\ stdout' = IF verbose THEN Append(stdout, MockDataNote) ELSE stdout
    /\ pc' = "outputGovernance"
    /\ UNCHANGED <<args, outputFormat, verbose, sections, owner, repoName,
                   governance, err, stderr, exitCode, api, prev, asked,
                   answers>>

\* the end of inspectRepository: the note, and the record returned
InspectReturn ==
    /\ pc = "inspected"
    /\ stderr' = Diagnostic(MockDataNote)
    /\ pc' = "outputGovernance"
    /\ UNCHANGED <<args, outputFormat, verbose, sections, owner, repoName,
                   governance, err, stdout, exitCode, api, prev, asked,
                   answers>>

\* Variant of Rendered whose error names the lower-cased format.
RenderedLowered(format, g, sectionsFilter) ==
    LET lower == ToLower(format)
    IN  CASE lower = <<"j","s","o","n">> ->
                [out |-> outputJSON(g), err |-> <<>>]
          [] lower \in {<<"y","a","m","l">>, <<"y","m","l">>} ->
                [out |-> outputYAML(g), err |-> <<>>]
          [] lower = <<"t","a","b","l","e">> ->
                [out |-> outputTable(g, sectionsFilter), err |-> <<>>]
          [] OTHER ->
                [out |-> <<>>,
                 err |-> <<<<"unsupported output format: ">> \o lower>>]

\* what outputGovernance writes and returns for a format
Rendered(format, g, sectionsFilter) ==
    LET lower == ToLower(format)
    IN  CASE lower = <<"j","s","o","n">> ->
                [out |-> outputJSON(g), err |-> <<>>]
          [] lower \in {<<"y","a","m","l">>, <<"y","m","l">>} ->
                [out |-> outputYAML(g), err |-> <<>>]
          [] lower = <<"t","a","b","l","e">> ->
                [out |-> outputTable(g, sectionsFilter), err |-> <<>>]
          [] OTHER ->
                [out |-> <<>>,
                 err |-> <<<<"unsupported output format: ">> \o format>>]

\* outputGovernance(governance, sections); standard output takes every write
OutputGovernance ==
    /\ pc = "outputGovernance"
    /\ LET r == Rendered(outputFormat, governance[1], sections)
       IN  /\ stdout' = stdout \o r.out
           /\ err' = r.err
    /\ pc' = "returned"
    /\ UNCHANGED <<args, outputFormat, verbose, sections, owner, repoName,
                   governance, stderr, exitCode, api, prev, asked, answers>>

\* the usage text of rootCmd: its Use line and its flags
UsageString ==
    <<"Usage:\n  repo-inspect [owner/repo] [flags]\n\nFlags:\n",
      "  -f, --format string      Output format (json, yaml, table) (default \"json\")\n",
      "  -h, --help               help for repo-inspect\n",
      "  -s, --sections strings   Specific sections to inspect (rulesets, collaborators, teams, security, settings, labels, milestones)\n",
      "  -v, --verbose            Enable verbose output\n">>

\* what rootCmd.Execute writes to standard error for the error of RunE
\* (neither SilenceErrors nor SilenceUsage is set): the error, the usage
ExecuteReport(message) ==
    <<<<"Error: ">> \o message \o <<"\n">>, UsageString \o <<"\n">>>>

\* the end of rootCmd.Execute, and main after it
MainExit ==
    /\ pc = "returned"
    /\ IF err # <<>>
       THEN /\ stderr' = Append(stderr \o ExecuteReport(err[1]),
                                <<"Error: ">> \o err[1] \o <<"\n">>)
            /\ exitCode' = 1
       ELSE /\ exitCode' = 0
            /\ UNCHANGED stderr
    /\ pc' = "exited"
    /\ UNCHANGED <<args, outputFormat, verbose, sections, owner, repoName,
                   governance, err, stdout, api, prev, asked, answers>>

Next ==
    \/ RunInspectArg
    \/ GetCurrentRepoClient
    \/ GetCurrentRepoGet
    \/ InspectRepository
    \/ getRepositorySettings
    \/ getRulesets
    \/ getCollaborators
    \/ getTeams
    \/ getSecuritySettings
    \/ getLabels
    \/ getMilestones
    \/ InspectReturn
    \/ OutputGovernance
    \/ MainExit

Spec == Init /\ [][Next]_vars

(***************************************************************************)
(* The aggregator under every section filter: invocations of a well-formed *)
(* repository, named on the command line or resolved from the working      *)
(* directory.                                                              *)
(***************************************************************************)
InitCollect == Start({<<>>, <<FullNames[1]>>}, Filters)

NextCollect == Next

SpecCollect == InitCollect /\ [][NextCollect]_vars

(***************************************************************************)
(* Two invocations in a row that differ in --verbose only: the second      *)
(* starts from the first one's command line with the flag flipped, and     *)
(* meets the same hosting-API outcomes.                                    *)
(***************************************************************************)
InitRerun ==
    /\ Init
    /\ verbose = FALSE

Rerun ==
    /\ pc = "exited"
    /\ prev = <<>>
    /\ prev' = <<[stdout |-> stdout, stderr |-> stderr,
                  exitCode |-> exitCode, api |-> api, invoked |-> Invoked]>>
    /\ verbose' = ~verbose
    /\ pc' = "runInspect"
    /\ owner' = <<>>
    /\ repoName' = <<>>
    /\ governance' = <<>>
    /\ err' = <<>>
    /\ stdout' = <<>>
    /\ stderr' = <<>>
    /\ exitCode' = -1
    /\ api' = <<>>
    /\ UNCHANGED <<args, outputFormat, sections, asked, answers>>

NextRerun == Next \/ Rerun

SpecRerun == InitRerun /\ [][NextRerun]_vars

(***************************************************************************)
(* The renderer on its own: outputGovernance applied to every record of a  *)
(* family in which each facet is empty or filled independently of the      *)
(* filter.                                                                 *)
(***************************************************************************)
RulesetLists ==
    {<<>>, <<RulesetMain>>, <<RulesetRelease>>, SampleRulesets,
     <<RulesetRelease, RulesetMain>>}

RenderRecords ==
    {[NewGovernance(<<"a">>, <<"b">>) EXCEPT
         !.Rulesets = rs, !.Collaborators = co, !.Teams = te,
         !.IssueLabels = la, !.Milestones = mi,
         !.RepoSettings = st[1], !.SecuritySettings = st[2]] :
       rs \in RulesetLists,
       co \in {<<>>, SampleCollaborators},
       te \in {<<>>, SampleTeams},
       la \in {<<>>, SampleLabels},
       mi \in {<<>>, SampleMilestones},
       st \in {<<ZeroRepoSettings, ZeroSecuritySettings>>,
               <<SampleRepoSettings, SampleSecuritySettings>>}}

InitRender ==
    /\ args = <<<<"a", "/", "b">>>>
    /\ outputFormat \in Formats
    /\ verbose = FALSE
    /\ sections \in SeqsUpTo(FilterNames, MaxRenderFilterLen)
    /\ pc = "outputGovernance"
    /\ owner = <<"a">>
    /\ repoName = <<"b">>
    /\ governance \in {<<g>> : g \in RenderRecords}
    /\ err = <<>>
    /\ stdout = <<>>
    /\ stderr = <<>>
    /\ exitCode = -1
    /\ api = <<>>
    /\ prev = <<>>
    /\ asked = ""
    /\ answers = <<>>

NextRender == OutputGovernance

SpecRender == InitRender /\ [][NextRender]_vars

(***************************************************************************)
(* The section filter on its own: both entry points asked about one name.  *)
(***************************************************************************)
InitFilter ==
    /\ Start({<<>>}, Filters)
    /\ outputFormat = <<"j","s","o","n">>
    /\ verbose = FALSE

AskFilter ==
    /\ answers = <<>>
    /\ \E name \in FilterNames :
        /\ asked' = name
        /\ answers' = <<shouldIncludeSection(name),
                        shouldIncludeSectionOutput(name, sections)>>
    /\ UNCHANGED <<args, outputFormat, verbose, sections, pc, owner, repoName,
                   governance, err, stdout, stderr, exitCode, api, prev>>

NextFilter == AskFilter

SpecFilter == InitFilter /\ [][NextFilter]_vars

(***************************************************************************)
(* Vocabulary of the properties                                            *)
(***************************************************************************)
SupportedFormats ==
    {<<"j","s","o","n">>, <<"y","a","m","l">>, <<"y","m","l">>,
     <<"t","a","b","l","e">>}

Unsupported(format) == ToLower(format) \notin SupportedFormats

IsTable == ToLower(outputFormat) = <<"t","a","b","l","e">>

\* the message main wrote last
LastError == stderr[Len(stderr)]

\* the filter's contract: everything for an empty list, else membership
Wanted(name, filter) == filter = <<>> \/ name \in Range(filter)

IsPrefix(a, b) == Len(a) <= Len(b) /\ SubSeq(b, 1, Len(a)) = a

SlashCount(s) == Cardinality({i \in DOMAIN s : s[i] = "/"})

\* the collectors the aggregator is to call under the --sections flag
ExpectedInvocations ==
    SelectSeq(Collectors, LAMBDA c : c = "settings" \/ Wanted(c, sections))

\* inspectRepository was called and has returned
InspectEnded ==
    /\ pc \in {"outputGovernance", "returned", "exited"}
    /\ \E i \in DOMAIN api : api[i].by = "inspectRepository"

Succeeded(c) == \E i \in DOMAIN api : api[i].op = c /\ api[i].res > 0

Failed(c) == \E i \in DOMAIN api : api[i].op = c /\ api[i].res = 0

\* the outcome of collector c's call
ResultOf(c) == api[CHOOSE i \in DOMAIN api : api[i].op = c].res

\* the value collector c produced
Produced(c) == Responses(c)[ResultOf(c)]

\* the field of GovernanceConfig that holds facet c
FacetStructField(c) ==
    GovernanceConfigFields[CHOOSE k \in DOMAIN GovernanceConfigFields :
                              GovernanceConfigFields[k].go = FacetField(c)]

\* facet c with value v as the encoder writes it
FacetDocument(enc, c, v) ==
    LET f == FacetStructField(c)
    IN  IF OmitsField(enc, f, v) THEN <<>>
        ELSE Prefix(FieldKey(enc, f), Encode(enc, f.kind, v))

\* facet c with value v as the table shows it
FacetSection(c, v) ==
    CASE c = "settings"      -> SettingsLines(v)
      [] c = "rulesets"      -> IF Len(v) > 0 THEN RulesetsLines(v) ELSE <<>>
      [] c = "collaborators" ->
            IF Len(v) > 0 THEN CollaboratorsLines(v) ELSE <<>>
      [] c = "teams"         -> IF Len(v) > 0 THEN TeamsLines(v) ELSE <<>>
      [] c = "security"      -> SecurityLines(v)
      [] c = "labels"        -> IF Len(v) > 0 THEN LabelsLines(v) ELSE <<>>
      [] c = "milestones"    ->
            IF Len(v) > 0 THEN MilestonesLines(v) ELSE <<>>

\* standard output holds facet c with value v, whatever the format
Appears(c, v) ==
    IF IsTable THEN Contains(stdout, FacetSection(c, v))
    ELSE IF ToLower(outputFormat) = <<"j","s","o","n">>
         THEN Contains(stdout, FacetDocument("json", c, v))
         ELSE Contains(stdout, FacetDocument("yaml", c, v))

(***************************************************************************)
(* C1                                                                      *)
(***************************************************************************)
\* C1 as stated: with an unsupported --format nothing is ever written to
\* standard output, the invocation exits with code 1, and the error message
\* main writes contains the format value exactly as supplied.
C1_UnsupportedFormatNamed ==
    Unsupported(outputFormat) =>
        /\ stdout = <<>>
        /\ pc = "exited" =>
              /\ exitCode = 1
              /\ Contains(LastError, outputFormat)

\* C1 amended: with an unsupported --format nothing is ever written to
\* standard output and the invocation exits with code 1; the error message
\* contains the format value exactly as supplied whenever the run gets as
\* far as rendering, that is, whenever the record was constructed; an
\* earlier fatal error is reported in its own words.
C1_UnsupportedFormatFails ==
    Unsupported(outputFormat) =>
        /\ stdout = <<>>
        /\ pc = "exited" =>
              /\ exitCode = 1
              /\ err # <<>>
              /\ LastError = <<"Error: ">> \o err[1] \o <<"\n">>
              /\ governance # <<>> =>
                    /\ Contains(LastError, outputFormat)
                    /\ err[1] = <<"unsupported output format: ">>
                                \o outputFormat

C1_Witness ==
    /\ pc = "exited"
    /\ outputFormat = <<"X","M","L">>
    /\ governance # <<>>
    /\ exitCode = 1
    /\ Contains(LastError, <<"X","M","L">>)

(***************************************************************************)
(* C2                                                                      *)
(***************************************************************************)
\* C2 as stated: once a call of inspectRepository has returned, the
\* collectors it invoked are exactly settings followed by the filter's
\* choice among the other six, in the fixed order.
C2_InvocationsExact == InspectEnded => Invoked = ExpectedInvocations

\* C2 amended: the collectors invoked so far are always a prefix of
\* settings followed by the filter's choice among the other six in the
\* fixed order (so none is invoked twice, out of order or when excluded);
\* a call of inspectRepository whose client construction succeeds has
\* invoked exactly that list when it returns, and one whose client
\* construction fails has invoked none.
C2_InvocationsFollowFilter ==
    /\ IsPrefix(Invoked, ExpectedInvocations)
    /\ InspectEnded =>
          IF governance # <<>> THEN Invoked = ExpectedInvocations
          ELSE Invoked = <<>>

C2_Witness ==
    /\ pc = "outputGovernance"
    /\ sections = <<"teams", "rulesets">>
    /\ Invoked = <<"settings", "rulesets", "teams">>

(***************************************************************************)
(* C3                                                                      *)
(***************************************************************************)
\* the part of C3 that does not depend on the format
C3_Isolation ==
    /\ Invoked = ExpectedInvocations
    /\ err = <<>>
    /\ exitCode = 0
    /\ \A i \in DOMAIN Collectors :
          Succeeded(Collectors[i]) =>
             governance[1][FacetField(Collectors[i])] = Produced(Collectors[i])

C3_Completed ==
    pc = "exited" /\ governance # <<>> /\ ~Unsupported(outputFormat)

\* C3 as stated: whichever collectors fail, with the client constructed and
\* a recognized format, every selected collector is invoked, the exit code
\* is 0 and every facet whose collector succeeded appears in the output
\* with the value that collector produced.
C3_EverySuccessAppears ==
    C3_Completed =>
        /\ C3_Isolation
        /\ \A i \in DOMAIN Collectors :
              Succeeded(Collectors[i]) =>
                 Appears(Collectors[i], Produced(Collectors[i]))

\* C3 amended: as stated, except that in table format a facet appears only
\* if the section filter includes it: the settings collected under a
\* filter that does not name "settings" are held in the record and left
\* out of the table.
C3_PartialFailureIsSuccess ==
    C3_Completed =>
        /\ C3_Isolation
        /\ \A i \in DOMAIN Collectors :
              (/\ Succeeded(Collectors[i])
               /\ IsTable => Wanted(Collectors[i], sections)) =>
                 Appears(Collectors[i], Produced(Collectors[i]))

C3_Witness ==
    /\ pc = "exited"
    /\ exitCode = 0
    /\ sections = <<>>
    /\ Failed("teams")
    /\ Failed("settings")
    /\ Succeeded("milestones")
    /\ Succeeded("rulesets")
    /\ stdout # <<>>

(***************************************************************************)
(* C5                                                                      *)
(***************************************************************************)
ArgumentError == <<"repository must be in format 'owner/repo'">>

\* C5: a positional argument that does not hold exactly one "/" ends the
\* invocation with the argument error and exit code 1, with no hosting-API
\* operation performed (no client built, no collector invoked, no record
\* constructed) and nothing written to standard output.
C5_MalformedArgument ==
    (Len(args) = 1 /\ SlashCount(args[1]) # 1) =>
        /\ api = <<>>
        /\ governance = <<>>
        /\ stdout = <<>>
        /\ pc # "runInspect" => err = <<ArgumentError>>
        /\ pc = "exited" =>
              /\ exitCode = 1
              /\ LastError = <<"Error: ">> \o ArgumentError \o <<"\n">>

C5_Witness ==
    /\ pc = "exited"
    /\ args = <<<<"a", "/", "b", "/", "c">>>>
    /\ exitCode = 1
    /\ api = <<>>

(***************************************************************************)
(* C6                                                                      *)
(***************************************************************************)
\* C6: whenever a governance record exists, the owner and the name of its
\* repository identity are non-empty.
C6_IdentityNonEmpty ==
    governance # <<>> =>
        /\ governance[1].Repository.Owner # <<>>
        /\ governance[1].Repository.Name # <<>>

(***************************************************************************)
(* C7                                                                      *)
(***************************************************************************)
\* C7: an invocation repeated with --verbose flipped, everything else and
\* every hosting-API outcome the same, invokes the same collectors in the
\* same order, writes the same standard output and exits with the same
\* code.
C7_VerboseOnlyStderr ==
    (prev # <<>> /\ pc = "exited") =>
        /\ Invoked = prev[1].invoked
        /\ stdout = prev[1].stdout
        /\ exitCode = prev[1].exitCode
        /\ api = prev[1].api

C7_Witness ==
    /\ prev # <<>>
    /\ pc = "exited"
    /\ verbose
    /\ Failed("labels")
    /\ stdout # <<>>
    /\ stderr # prev[1].stderr
    /\ Len(stderr) = 3

(***************************************************************************)
(* C4                                                                      *)
(***************************************************************************)
\* C4: both entry points of the section filter answer TRUE for every name
\* when the list is empty, and otherwise TRUE exactly when the name is an
\* element of the list by exact, case-sensitive equality; a list of
\* unrecognized names only excludes each of the seven sections.
C4_FilterIsMembership ==
    answers # <<>> =>
        /\ answers[1] = Wanted(asked, sections)
        /\ answers[2] = Wanted(asked, sections)
        /\ (/\ sections # <<>>
            /\ Range(sections) \cap SectionNames = {}
            /\ asked \in SectionNames) => answers = <<FALSE, FALSE>>

C4_Witness ==
    /\ sections = <<"Teams">>
    /\ asked = "teams"
    /\ answers = <<FALSE, FALSE>>

(***************************************************************************)
(* C8                                                                      *)
(***************************************************************************)
\* the top-level sequence fields the claim names
SequenceFacets == {"rulesets", "collaborators", "teams", "labels", "milestones"}

\* some line of the output lies under the given path of keys and indices
HasKey(path) == \E i \in DOMAIN stdout : IsPrefix(path, stdout[i])

StatusChecksField ==
    RulesetFields[CHOOSE k \in DOMAIN RulesetFields :
                     RulesetFields[k].go = "RequiredStatusChecks"]

\* C8: in json and in yaml/yml output an empty sequence field of the
\* record, a ruleset's required status checks included, has no key in the
\* output under either encoder's name for it.
C8_EmptySequencesOmitted ==
    (pc = "returned" /\ ~Unsupported(outputFormat) /\ ~IsTable) =>
        /\ \A c \in SequenceFacets :
              governance[1][FacetField(c)] = <<>> =>
                 /\ ~HasKey(<<FacetStructField(c).json>>)
                 /\ ~HasKey(<<FacetStructField(c).yaml>>)
        /\ \A k \in DOMAIN governance[1].Rulesets :
              governance[1].Rulesets[k].RequiredStatusChecks = <<>> =>
                 /\ ~HasKey(<<"rulesets", ToString(k - 1),
                              StatusChecksField.json>>)
                 /\ ~HasKey(<<"rulesets", ToString(k - 1),
                              StatusChecksField.yaml>>)

(***************************************************************************)
(* C9                                                                      *)
(***************************************************************************)
TableOrder ==
    <<"identity", "settings", "security", "rulesets", "collaborators",
      "teams", "labels", "milestones">>

\* how a section's first line starts
TitleOf(sec) ==
    CASE sec = "identity"      -> "Repository: "
      [] sec = "settings"      -> "Repository Settings"
      [] sec = "security"      -> "Security Settings"
      [] sec = "rulesets"      -> "Repository Rulesets"
      [] sec = "collaborators" -> "Collaborators ("
      [] sec = "teams"         -> "Teams ("
      [] sec = "labels"        -> "Labels ("
      [] sec = "milestones"    -> "Milestones ("

\* the section titles on standard output, in the order written
TitlesWritten ==
    LET firsts == [i \in DOMAIN stdout |->
                      IF Len(stdout[i]) > 0 THEN stdout[i][1] ELSE ""]
    IN  SelectSeq(firsts, LAMBDA t : \E sec \in Range(TableOrder) :
                                        t = TitleOf(sec))

\* whether the claim has section sec written for record g under a filter
ToBeWritten(sec, g, filter) ==
    CASE sec = "identity"                -> TRUE
      [] sec \in {"settings", "security"} -> Wanted(sec, filter)
      [] OTHER -> Len(g[FacetField(sec)]) > 0 /\ Wanted(sec, filter)

\* C9: the table holds the identity header always, settings and security
\* exactly when the filter includes them, and each of rulesets,
\* collaborators, teams, labels, milestones exactly when it is non-empty
\* and the filter includes it, each once and in that order.
C9_TableSections ==
    (pc = "returned" /\ IsTable) =>
        LET due == SelectSeq(TableOrder,
                       LAMBDA sec : ToBeWritten(sec, governance[1], sections))
        IN  TitlesWritten = [i \in DOMAIN due |-> TitleOf(due[i])]

C9_Witness ==
    /\ pc = "returned"
    /\ IsTable
    /\ sections = <<"teams">>
    /\ governance[1].Rulesets # <<>>
    /\ governance[1].Teams # <<>>
    /\ governance[1].Milestones = <<>>
    /\ TitlesWritten = <<"Repository: ", "Teams (">>

(***************************************************************************)
(* C10                                                                     *)
(***************************************************************************)
\* the label of a table line, "" for a line without one
LabelAt(i) ==
    IF i \in DOMAIN stdout /\ Len(stdout[i]) >= 2 THEN stdout[i][2] ELSE ""

ValueAt(i) ==
    IF i \in DOMAIN stdout /\ Len(stdout[i]) >= 3 THEN stdout[i][3] ELSE ""

\* the positions of the lines with a given label, ascending
LinesLabelled(label) ==
    SelectSeq([i \in DOMAIN stdout |-> i], LAMBDA i : LabelAt(i) = label)

NestedLabels ==
    {"Required Approving Reviews: ", "Dismiss Stale Reviews: ",
     "Require Code Owner Reviews: "}

\* the rulesets the table renders
RulesetsRendered ==
    IF Wanted("rulesets", sections) THEN governance[1].Rulesets ELSE <<>>

\* C10: the table has one "Require PR Reviews" line per rendered ruleset;
\* a ruleset whose flag is set has its three nested lines right after that
\* line and then the linear-history line; a ruleset whose flag is not set
\* has the linear-history line right after it; and no nested line stands
\* anywhere else.
C10_NestedReviewLines ==
    (pc = "returned" /\ IsTable) =>
        LET at == LinesLabelled("Require PR Reviews: ")
            rs == RulesetsRendered
        IN  /\ Len(at) = Len(rs)
            /\ \A k \in DOMAIN rs :
                  IF rs[k].RequiredPullRequestReviews
                  THEN /\ LabelAt(at[k] + 1) = "Required Approving Reviews: "
                       /\ ValueAt(at[k] + 1)
                            = ToString(rs[k].RequiredApprovingReviewCount)
                       /\ LabelAt(at[k] + 2) = "Dismiss Stale Reviews: "
                       /\ ValueAt(at[k] + 2)
                            = boolToIcon(rs[k].DismissStaleReviews)
                       /\ LabelAt(at[k] + 3) = "Require Code Owner Reviews: "
                       /\ ValueAt(at[k] + 3)
                            = boolToIcon(rs[k].RequireCodeOwnerReviews)
                       /\ LabelAt(at[k] + 4) = "Required Linear History: "
                  ELSE LabelAt(at[k] + 1) = "Required Linear History: "
            /\ \A i \in DOMAIN stdout :
                  LabelAt(i) \in NestedLabels =>
                     \E k \in DOMAIN rs :
                        /\ rs[k].RequiredPullRequestReviews
                        /\ i \in (at[k] + 1)..(at[k] + 3)

C10_Witness ==
    /\ pc = "returned"
    /\ IsTable
    /\ RulesetsRendered = <<RulesetRelease, RulesetMain>>
    /\ Len(LinesLabelled("Required Approving Reviews: ")) = 1
    /\ Len(LinesLabelled("Require PR Reviews: ")) = 2

====
